---- MODULE Spec2Model ----
(***************************************************************************)
(* Model of the plugin loader of kgkgn/Plugin: src/Loader.py (the          *)
(* PluginLoader singleton, LoadPlugin, Callback, the OpenToPlugin          *)
(* decorator and the module's own initialisation) and src/Plugins/Sample.py *)
(* (the sample PluginAgent).                                               *)
(*                                                                         *)
(* Python values are modelled as strings ("6" is the integer 6, "Nb" the   *)
(* string 'Nb'); a Python dict is a sequence in insertion order; None and  *)
(* "no exception" are NoObject and "none".                                 *)
(***************************************************************************)
EXTENDS Integers, Sequences, FiniteSets, TLC

\* ---------------------------------------------------------------- bounds
\* Most plugin modules the Plugins directory holds.
MaxDisk == 2
\* Most LoadPlugin calls the host makes after module initialisation.
MaxReloads == 1
\* Most changes plugins make to their own observingList.
MaxEdits == 1

\* ------------------------------------------------------- program constants
\* __MANAGER__ = None
NoObject == 0

\* Extension-point names used by the host and by plugins.
Names == {"Astra", "Beta"}
\* Values a host operation hands to Callback.
Values == {"6", "x"}
\* Host operations that can be decorated: Astra is Loader.Astra (returns 6),
\* Other returns another value, Boom raises.
Funcs == {"Astra", "Other", "Boom"}
\* The decorations the host program contains: <<functionName, function>>.  The
\* first is Loader.Astra itself; two operations share the name Astra.
HostPoints == {<<"Astra", "Astra">>, <<"Astra", "Other">>, <<"Beta", "Other">>,
               <<"Beta", "Boom">>}

\* The plugin modules that may be present in the Plugins directory.  Sample
\* is src/Plugins/Sample.py; the others are further inputs exercising the
\* contract: Second is a complete plugin whose Start() can fail, NoAgent lacks
\* the PluginAgent class, NoStart lacks PluginAgent.Start, NoList lacks
\* PluginAgent.observingList.
Modules == {"Sample", "Second", "NoAgent", "NoStart", "NoList"}

Module(p) ==
    CASE p = "Sample"  -> [hasAgent |-> TRUE,  hasStart |-> TRUE,  hasList |-> TRUE,
                           observingList |-> <<"Astra">>, startMay |-> {"ok"}]
      [] p = "Second"  -> [hasAgent |-> TRUE,  hasStart |-> TRUE,  hasList |-> TRUE,
                           observingList |-> <<"Beta", "Astra">>,
                           startMay |-> {"ok", "AttributeError", "Exception"}]
      [] p = "NoAgent" -> [hasAgent |-> FALSE, hasStart |-> FALSE, hasList |-> FALSE,
                           observingList |-> <<>>, startMay |-> {"AttributeError"}]
      [] p = "NoStart" -> [hasAgent |-> TRUE,  hasStart |-> FALSE, hasList |-> TRUE,
                           observingList |-> <<"Astra">>, startMay |-> {"AttributeError"}]
      [] p = "NoList"  -> [hasAgent |-> TRUE,  hasStart |-> TRUE,  hasList |-> FALSE,
                           observingList |-> <<>>, startMay |-> {"ok", "Exception"}]

\* a candidate lacking a member of the contract
Malformed(c) == ~Module(c).hasAgent \/ ~Module(c).hasStart \/ ~Module(c).hasList

\* ------------------------------------------------------------------ state
VARIABLES
    pc,             \* position of the module's initialisation (lines 116-153)
    disk,           \* plugin modules os.walk finds, in its order
    MANAGER,        \* the global __MANAGER__
    nextObject,     \* identity of the last object object.__new__ created
    pluginList,     \* _pluginList: dict keys in insertion order
    observerList,   \* _observerList: dict items in insertion order
    validNameList,  \* _validNameList
    wrappers,       \* the __PluginMix closures created: <<functionName, function>>
    instances,      \* identities returned by the PluginLoader() calls so far
    hostLoads,      \* LoadPlugin calls made by the host after initialisation
    loads,          \* LoadPlugin executions so far
    agentList,      \* per plugin module, its PluginAgent.observingList as it is now
    edits,          \* changes plugins made to their own observingList so far
    startCalls,     \* per plugin module, the Start() invocations so far
    last            \* the last operation: inputs, outcome and what it called/printed

vars == <<pc, disk, MANAGER, nextObject, pluginList, observerList, validNameList,
          wrappers, instances, hostLoads, loads, startCalls, agentList, edits, last>>

\* --------------------------------------------------------- dict helpers
Range(s) == {s[i] : i \in 1..Len(s)}

Min(S) == CHOOSE i \in S : \A j \in S : i <= j

SeqWithout(s, dropped) == SelectSeq(s, LAMBDA x : x \notin dropped)

\* d[k] = v on a dict of keys only: a new key goes last, an old key keeps its place
KeySet(keys, k) == IF k \in Range(keys) THEN keys ELSE Append(keys, k)

\* keys of _observerList
ObserverKeys(obs) == {obs[i].name : i \in 1..Len(obs)}

\* _observerList[name] = list
ObserverSet(obs, p, list) ==
    IF p \in ObserverKeys(obs)
    THEN [i \in 1..Len(obs) |-> IF obs[i].name = p THEN [name |-> p, list |-> list] ELSE obs[i]]
    ELSE Append(obs, [name |-> p, list |-> list])

\* line 92 storing the plugin's own list object: the entry of p follows every
\* change p makes to its observingList
AfterEditShared(obs, p, list) ==
    IF p \in ObserverKeys(obs) THEN ObserverSet(obs, p, list) ELSE obs

\* _observerList after plugin p changed its own observingList in place to
\* `list`: line 92 stored [] + observingList, a new list, so no entry shares
\* storage with the plugin's list
AfterEdit(obs, p, list) == obs

\* all sequences without repetition over S of length at most n
RECURSIVE DistinctSeqs(_, _)
DistinctSeqs(S, n) ==
    IF n = 0 THEN {<<>>}
    ELSE LET shorter == DistinctSeqs(S, n - 1)
         IN  shorter \cup UNION {{Append(s, x) : x \in S \ Range(s)} : s \in shorter}

\* ------------------------------------------------- PluginLoader: creation
\* __new__ without the singleton test: a new object at every call
NewAlways(manager, lastObject) ==
    [instance |-> lastObject + 1, lastObject |-> lastObject + 1]

\* PluginLoader.__new__: the instance to return, given __MANAGER__ and the
\* identity of the last object created
New(manager, lastObject) ==
    IF manager = NoObject
    THEN [instance |-> lastObject + 1, lastObject |-> lastObject + 1]
    ELSE [instance |-> manager, lastObject |-> lastObject]

\* PluginLoader.__init__: Python runs it on the instance __new__ returned, at
\* every PluginLoader() call
InitFields == [pluginList |-> <<>>, validNameList |-> {}, observerList |-> <<>>]

\* ------------------------------------------------ PluginLoader.LoadPlugin
\* The log of an operation lists what it called and printed, in order, as
\* <<kind, a, b, c>>: <<"Start", plugin, "", "">>, <<"ERROR", plugin, hint, "">>,
\* <<"INFO", plugin, functionName, "">>, <<"Receive", plugin, functionName, value>>,
\* <<"function", function, "", "">>, <<"Callback", functionName, value, "">>.

\* the scan of the plugin directory: every module found is (re)entered in
\* _pluginList
RECURSIVE Scan(_, _)
Scan(keys, found) ==
    IF found = <<>> THEN keys
    ELSE Scan(KeySet(keys, Head(found)), Tail(found))

\* the start loop giving a plugin whose Start() raised a second try
StartOneRetry(p, outcome, acc) ==
    IF ~Module(p).hasAgent \/ ~Module(p).hasStart
    THEN [acc EXCEPT !.log = Append(@, <<"ERROR", p, "PluginAgent", "">>),
                     !.removalList = Append(@, p)]
    ELSE LET started1 == [acc EXCEPT !.log = Append(@, <<"Start", p, "", "">>)]
         IN  CASE outcome = "AttributeError" ->
                    [started1 EXCEPT !.log = Append(@, <<"ERROR", p, "PluginAgent", "">>),
                                     !.removalList = Append(@, p)]
               [] outcome = "Exception" ->
                    [started1 EXCEPT !.log = @ \o << <<"Start", p, "", "">>,
                                                     <<"ERROR", p, "Start", "">> >>,
                                     !.removalList = Append(@, p)]
               [] OTHER ->
                    IF ~Module(p).hasList
                    THEN [started1 EXCEPT !.raised = "AttributeError"]
                    ELSE [started1 EXCEPT !.obs = ObserverSet(@, p, agentList[p])]

\* one round of the start loop, for plugin p whose Start() ends as `outcome`
StartOne(p, outcome, acc) ==
    IF ~Module(p).hasAgent \/ ~Module(p).hasStart
    THEN \* plugin.PluginAgent.Start raises AttributeError before Start runs
         [acc EXCEPT !.log = Append(@, <<"ERROR", p, "PluginAgent", "">>),
                     !.removalList = Append(@, p)]
    ELSE LET started == [acc EXCEPT !.log = Append(@, <<"Start", p, "", "">>)]
         IN  CASE outcome = "AttributeError" ->
                    [started EXCEPT !.log = Append(@, <<"ERROR", p, "PluginAgent", "">>),
                                    !.removalList = Append(@, p)]
               [] outcome = "Exception" ->
                    [started EXCEPT !.log = Append(@, <<"ERROR", p, "Start", "">>),
                                    !.removalList = Append(@, p)]
               [] OTHER ->
                    \* the else clause is outside the try: a missing observingList
                    \* raises AttributeError out of LoadPlugin
                    IF ~Module(p).hasList
                    THEN [started EXCEPT !.raised = "AttributeError"]
                    ELSE [started EXCEPT !.obs = ObserverSet(@, p, agentList[p])]

\* the start loop over _pluginList.items(), from position i
RECURSIVE StartLoop(_, _, _, _)
StartLoop(keys, i, outcomes, acc) ==
    IF i > Len(keys) \/ acc.raised # "none" THEN acc
    ELSE StartLoop(keys, i + 1, outcomes, StartOne(keys[i], outcomes[keys[i]], acc))

\* the outcomes Start() can have for the plugins in keys
StartOutcomes(keys) ==
    {o \in [Range(keys) -> {"ok", "AttributeError", "Exception"}] :
        \A p \in Range(keys) : o[p] \in Module(p).startMay}

\* LoadPlugin as section 4.2 words it: the start loop runs only over the
\* candidates whose identifier was not in _pluginList when the call began
LoadPluginOnlyNew(plugins, obs, found, outcomes) ==
    LET keys  == Scan(plugins, found)
        fresh == SeqWithout(keys, Range(plugins))
        r     == StartLoop(fresh, 1, outcomes,
                           [obs |-> obs, removalList |-> <<>>, log |-> <<>>,
                            raised |-> "none"])
    IN  [pluginList   |-> IF r.raised = "none"
                          THEN SeqWithout(keys, Range(r.removalList))
                          ELSE keys,
         observerList |-> r.obs,
         log          |-> r.log,
         raised       |-> r.raised]

\* LoadPlugin on a manager with the given fields: the fields it leaves, what it
\* called and printed, and the exception it raised
LoadPlugin(plugins, obs, found, outcomes) ==
    LET keys == Scan(plugins, found)
        r    == StartLoop(keys, 1, outcomes,
                          [obs |-> obs, removalList |-> <<>>, log |-> <<>>,
                           raised |-> "none"])
    IN  [pluginList   |-> IF r.raised = "none"
                          THEN SeqWithout(keys, Range(r.removalList))
                          ELSE keys,
         observerList |-> r.obs,
         log          |-> r.log,
         raised       |-> r.raised]

\* -------------------------------------------------- PluginAgent.Receive
\* Receive as the comments of Loader.Astra and Sample.Receive describe it: a
\* self increment of the value for Astra
ReceiveIncrement(p, functionName, value) ==
    IF p = "Sample" /\ functionName = "Astra" /\ value = "6"
    THEN [raised |-> "none", value |-> "7"]
    ELSE [raised |-> "none", value |-> value]

\* Sample is src/Plugins/Sample.py; Second answers "2nd" for Astra and raises
\* for any other name
Receive(p, functionName, value) ==
    CASE p = "Sample" ->
            IF functionName \notin Range(agentList[p])
            THEN [raised |-> "AssertionError", value |-> ""]
            ELSE IF functionName = "Astra"
                 THEN [raised |-> "none", value |-> "Nb"]
                 ELSE [raised |-> "none", value |-> value]
      [] p = "Second" ->
            IF functionName = "Astra"
            THEN [raised |-> "none", value |-> "2nd"]
            ELSE [raised |-> "Exception", value |-> ""]
      [] OTHER        -> [raised |-> "none", value |-> value]

\* --------------------------------------------------- PluginLoader.Callback
\* positions of the plugins observing functionName
Observers(obs, functionName) ==
    {i \in 1..Len(obs) : functionName \in Range(obs[i].list)}

\* the plugin the for loop of Callback stops at
FirstObserver(obs, functionName) ==
    obs[Min(Observers(obs, functionName))].name

\* Callback without its assertion
CallbackNoAssert(functionName, result, plugins, obs, valid) ==
    IF Observers(obs, functionName) = {}
    THEN [raised |-> "none", value |-> result, log |-> <<>>]
    ELSE LET pluginName == FirstObserver(obs, functionName)
             info == <<"INFO", pluginName, functionName, "">>
         IN  IF pluginName \notin Range(plugins)
             THEN [raised |-> "KeyError", value |-> "", log |-> <<info>>]
             ELSE LET r == Receive(pluginName, functionName, result)
                  IN  [raised |-> r.raised, value |-> r.value,
                       log |-> <<info, <<"Receive", pluginName, functionName, result>> >>]

\* Callback without the return inside its loop: every observing plugin receives
\* the value the one before it answered
RECURSIVE CallbackChain(_, _, _, _, _)
CallbackChain(functionName, result, plugins, obs, valid) ==
    IF functionName \notin valid
    THEN [raised |-> "AssertionError", value |-> "", log |-> <<>>]
    ELSE IF Observers(obs, functionName) = {}
    THEN [raised |-> "none", value |-> result, log |-> <<>>]
    ELSE LET pluginName == FirstObserver(obs, functionName)
             info == <<"INFO", pluginName, functionName, "">>
         IN  IF pluginName \notin Range(plugins)
             THEN [raised |-> "KeyError", value |-> "", log |-> <<info>>]
             ELSE LET r == Receive(pluginName, functionName, result)
                      here == <<info, <<"Receive", pluginName, functionName, result>> >>
                      rest == CallbackChain(functionName, r.value, plugins,
                                            SubSeq(obs, Min(Observers(obs, functionName)) + 1,
                                                   Len(obs)),
                                            valid)
                  IN  IF r.raised # "none"
                      THEN [raised |-> r.raised, value |-> "", log |-> here]
                      ELSE [rest EXCEPT !.log = here \o @]

\* Callback guarding the plugin call: when Receive raises, the original result
\* is returned
CallbackFallback(functionName, result, plugins, obs, valid) ==
    IF functionName \notin valid
    THEN [raised |-> "AssertionError", value |-> "", log |-> <<>>]
    ELSE IF Observers(obs, functionName) = {}
    THEN [raised |-> "none", value |-> result, log |-> <<>>]
    ELSE LET pluginName == FirstObserver(obs, functionName)
             info == <<"INFO", pluginName, functionName, "">>
         IN  IF pluginName \notin Range(plugins)
             THEN [raised |-> "KeyError", value |-> "", log |-> <<info>>]
             ELSE LET r == Receive(pluginName, functionName, result)
                  IN  [raised |-> "none",
                       value |-> IF r.raised = "none" THEN r.value ELSE result,
                       log |-> <<info, <<"Receive", pluginName, functionName, result>> >>]

\* Callback without its last line: nothing is returned when no plugin observes
CallbackNoReturn(functionName, result, plugins, obs, valid) ==
    IF functionName \notin valid
    THEN [raised |-> "AssertionError", value |-> "", log |-> <<>>]
    ELSE IF Observers(obs, functionName) = {}
    THEN [raised |-> "none", value |-> "", log |-> <<>>]
    ELSE LET pluginName == FirstObserver(obs, functionName)
             info == <<"INFO", pluginName, functionName, "">>
         IN  IF pluginName \notin Range(plugins)
             THEN [raised |-> "KeyError", value |-> "", log |-> <<info>>]
             ELSE LET r == Receive(pluginName, functionName, result)
                  IN  [raised |-> r.raised, value |-> r.value,
                       log |-> <<info, <<"Receive", pluginName, functionName, result>> >>]

Callback(functionName, result, plugins, obs, valid) ==
    IF functionName \notin valid
    THEN [raised |-> "AssertionError", value |-> "", log |-> <<>>]
    ELSE IF Observers(obs, functionName) = {}
    THEN [raised |-> "none", value |-> result, log |-> <<>>]
    ELSE LET pluginName == FirstObserver(obs, functionName)
             info == <<"INFO", pluginName, functionName, "">>
         IN  IF pluginName \notin Range(plugins)
             THEN \* self._pluginList[pluginName]
                  [raised |-> "KeyError", value |-> "", log |-> <<info>>]
             ELSE LET r == Receive(pluginName, functionName, result)
                  IN  [raised |-> r.raised, value |-> r.value,
                       log |-> <<info, <<"Receive", pluginName, functionName, result>> >>]

\* ------------------------------------------------------------ OpenToPlugin
\* the decorated host operations
Function(f) ==
    CASE f = "Astra" -> [raised |-> "none", value |-> "6"]
      [] f = "Other" -> [raised |-> "none", value |-> "x"]
      [] OTHER       -> [raised |-> "Exception", value |-> ""]

\* __PluginMix returning the original result without dispatching it
PluginMixNoDispatch(functionName, f, plugins, obs, valid) ==
    LET result == Function(f)
    IN  [raised |-> result.raised, value |-> result.value,
         log |-> << <<"function", f, "", "">> >>]

\* __PluginMix: the wrapped operation
PluginMix(functionName, f, plugins, obs, valid) ==
    LET result == Function(f)
        call   == <<"function", f, "", "">>
    IN  IF result.raised # "none"
        THEN [raised |-> result.raised, value |-> "", log |-> <<call>>]
        ELSE LET c == Callback(functionName, result.value, plugins, obs, valid)
             IN  [raised |-> c.raised, value |-> c.value,
                  log |-> <<call, <<"Callback", functionName, result.value, "">> >> \o c.log]

\* ---------------------------------------------------------------- actions
\* how often a log records a call of one kind on plugin p
Calls(log, kind, p) == Len(SelectSeq(log, LAMBDA e : e[1] = kind /\ e[2] = p))

Done(op, a, b, r) ==
    [op |-> op, name |-> a, arg |-> b, raised |-> r.raised, value |-> r.value,
     log |-> r.log]

NoResult == [raised |-> "none", value |-> "", log |-> <<>>]

Init ==
    /\ pc = "construct"
    /\ disk \in DistinctSeqs(Modules, MaxDisk)
    /\ MANAGER = NoObject
    /\ nextObject = NoObject
    /\ pluginList = <<>>
    /\ observerList = <<>>
    /\ validNameList = {}
    /\ wrappers = {}
    /\ instances = {}
    /\ hostLoads = 0
    /\ loads = 0
    /\ startCalls = [p \in Modules |-> 0]
    /\ agentList = [p \in Modules |-> Module(p).observingList]
    /\ edits = 0
    /\ last = Done("none", "", "", NoResult)

\* PluginLoader(): __new__, then __init__ on what it returned
Construct ==
    LET new == New(MANAGER, nextObject)
    IN  /\ MANAGER' = new.instance
        /\ nextObject' = new.lastObject
        /\ instances' = instances \cup {new.instance}
        /\ pluginList' = InitFields.pluginList
        /\ validNameList' = InitFields.validNameList
        /\ observerList' = InitFields.observerList
        /\ last' = Done("PluginLoader", "", "", NoResult)
        /\ UNCHANGED <<disk, wrappers, loads, startCalls, agentList, edits>>

\* PluginManager.LoadPlugin()
Load(outcomes) ==
    LET r == LoadPlugin(pluginList, observerList, disk, outcomes)
    IN  /\ pluginList' = r.pluginList
        /\ observerList' = r.observerList
        /\ last' = Done("LoadPlugin", "", "",
                        [raised |-> r.raised, value |-> "", log |-> r.log])
        /\ loads' = loads + 1
        /\ startCalls' = [p \in Modules |-> startCalls[p] + Calls(r.log, "Start", p)]
        /\ UNCHANGED <<disk, MANAGER, nextObject, validNameList, wrappers, instances,
                       agentList, edits>>

\* line 116: PluginManager = PluginLoader()
ModuleConstruct ==
    /\ pc = "construct"
    /\ Construct
    /\ pc' = "load"
    /\ UNCHANGED hostLoads

\* line 117: PluginManager.LoadPlugin()
ModuleLoad ==
    /\ pc = "load"
    /\ \E outcomes \in StartOutcomes(Scan(pluginList, disk)) : Load(outcomes)
    /\ pc' = IF last'.raised = "none" THEN "decorate" ELSE "crashed"
    /\ UNCHANGED hostLoads

\* OpenToPlugin keeping its names in the interest index: the registration lands
\* in _observerList instead of _validNameList
DecorateInObserverList(functionName, f) ==
    /\ observerList' = ObserverSet(observerList, functionName, <<functionName>>)
    /\ wrappers' = wrappers \cup {<<functionName, f>>}
    /\ last' = Done("OpenToPlugin", functionName, f, NoResult)
    /\ UNCHANGED <<disk, MANAGER, nextObject, pluginList, validNameList, instances,
                   loads, startCalls, agentList, edits>>

\* OpenToPlugin enforcing unique names: a name already registered is refused
DecorateUnique(functionName, f) ==
    /\ validNameList' = validNameList \cup {functionName}
    /\ wrappers' = IF functionName \in validNameList
                   THEN wrappers
                   ELSE wrappers \cup {<<functionName, f>>}
    /\ last' = Done("OpenToPlugin", functionName, f,
                    IF functionName \in validNameList
                    THEN [raised |-> "AssertionError", value |-> "", log |-> <<>>]
                    ELSE NoResult)
    /\ UNCHANGED <<disk, MANAGER, nextObject, pluginList, observerList, instances,
                   loads, startCalls, agentList, edits>>

\* OpenToPlugin(functionName)(f)
Decorate(functionName, f) ==
    /\ validNameList' = validNameList \cup {functionName}
    /\ wrappers' = wrappers \cup {<<functionName, f>>}
    /\ last' = Done("OpenToPlugin", functionName, f, NoResult)
    /\ UNCHANGED <<disk, MANAGER, nextObject, pluginList, observerList, instances,
                   loads, startCalls, agentList, edits>>

\* a call of the wrapped operation OpenToPlugin(functionName)(f) returned
CallWrapped(functionName, f) ==
    /\ <<functionName, f>> \in wrappers
    /\ last' = Done("PluginMix", functionName, f,
                    PluginMix(functionName, f, pluginList, observerList, validNameList))
    /\ UNCHANGED <<disk, MANAGER, nextObject, pluginList, observerList, validNameList,
                   wrappers, instances, loads, startCalls, agentList, edits>>

\* lines 146-148: @OpenToPlugin('Astra') def Astra
ModuleDecorate ==
    /\ pc = "decorate"
    /\ Decorate("Astra", "Astra")
    /\ pc' = "call"
    /\ UNCHANGED hostLoads

\* line 153: print(... % Astra())
ModuleCall ==
    /\ pc = "call"
    /\ CallWrapped("Astra", "Astra")
    /\ pc' = IF last'.raised = "none" THEN "host" ELSE "crashed"
    /\ UNCHANGED hostLoads

\* the host, after importing the module: another PluginLoader()
HostConstruct ==
    /\ pc = "host"
    /\ Construct
    /\ UNCHANGED <<pc, hostLoads>>

\* the host calls PluginManager.LoadPlugin() again
HostLoad ==
    /\ pc = "host"
    /\ hostLoads < MaxReloads
    /\ \E outcomes \in StartOutcomes(Scan(pluginList, disk)) : Load(outcomes)
    /\ hostLoads' = hostLoads + 1
    /\ UNCHANGED pc

\* the host decorates one of its operations
HostDecorate ==
    /\ pc = "host"
    /\ \E point \in HostPoints : Decorate(point[1], point[2])
    /\ UNCHANGED <<pc, hostLoads>>

\* the host calls a decorated operation
HostCall ==
    /\ pc = "host"
    /\ \E point \in HostPoints : CallWrapped(point[1], point[2])
    /\ UNCHANGED <<pc, hostLoads>>

\* the host calls PluginManager.Callback(functionName, result) itself
HostCallback ==
    /\ pc = "host"
    /\ \E functionName \in Names, result \in Values :
          last' = Done("Callback", functionName, result,
                       Callback(functionName, result, pluginList, observerList,
                                validNameList))
    /\ UNCHANGED <<pc, disk, MANAGER, nextObject, pluginList, observerList,
                   validNameList, wrappers, instances, hostLoads, loads, startCalls,
                   agentList, edits>>

\* a plugin whose code has run changes its own PluginAgent.observingList in
\* place: it removes the name if the list holds it and appends it otherwise
PluginEdit ==
    /\ pc = "host"
    /\ edits < MaxEdits
    /\ \E p \in Modules, n \in Names :
          /\ startCalls[p] > 0 /\ Module(p).hasList
          /\ LET list == IF n \in Range(agentList[p])
                         THEN SeqWithout(agentList[p], {n})
                         ELSE Append(agentList[p], n)
             IN  /\ agentList' = [agentList EXCEPT ![p] = list]
                 /\ observerList' = AfterEdit(observerList, p, list)
          /\ last' = Done("observingList", p, n, NoResult)
    /\ edits' = edits + 1
    /\ UNCHANGED <<pc, disk, MANAGER, nextObject, pluginList, validNameList, wrappers,
                   instances, hostLoads, loads, startCalls>>

Next ==
    \/ ModuleConstruct
    \/ ModuleLoad
    \/ ModuleDecorate
    \/ ModuleCall
    \/ HostConstruct
    \/ HostLoad
    \/ HostDecorate
    \/ HostCall
    \/ HostCallback

Spec == Init /\ [][Next]_vars

\* The same program with plugins that change their own observingList while
\* the host runs.  Only the code of a complete plugin ever runs, so the Plugins
\* directory holds complete plugins here.
InitEdit ==
    /\ Init
    /\ Range(disk) \subseteq {p \in Modules : ~Malformed(p)}

NextEdit ==
    \/ Next
    \/ PluginEdit

SpecEdit == InitEdit /\ [][NextEdit]_vars

\* ------------------------------------------------------------ properties
\* the entries of one kind in a log
Entries(log, kind) == SelectSeq(log, LAMBDA e : e[1] = kind)

\* the plugins an operation named in entries of one kind
Named(log, kind) == {e[2] : e \in Range(Entries(log, kind))}

\* the last operation was a dispatch of a registered name: a direct Callback, or
\* a wrapped operation whose function returned
Dispatched ==
    /\ \/ last.op = "Callback"
       \/ last.op = "PluginMix" /\ Function(last.arg).raised = "none"
    /\ last.name \in validNameList

\* the value the last dispatch handed to Callback
DispatchedValue ==
    IF last.op = "Callback" THEN last.arg ELSE Function(last.arg).value

\* C1: whenever a registered name n has one or more plugins holding it in their
\* interestIndex entry, Callback(n, v) ends exactly as Receive(n, v) of the first
\* such plugin in insertion order does, however many others also hold n.
C1_FirstInterestedPluginDecides ==
    (Dispatched /\ Observers(observerList, last.name) # {}) =>
        LET first    == Min(Observers(observerList, last.name))
            expected == Receive(observerList[first].name, last.name, DispatchedValue)
        IN  /\ last.raised = expected.raised
            /\ last.value = expected.value

\* C2: whenever no plugin holds a registered name n in its interestIndex entry,
\* Callback(n, v) returns v unchanged, invokes no Receive and prints no INFO trace.
C2_PassThrough ==
    (Dispatched /\ \A i \in 1..Len(observerList) :
                       last.name \notin Range(observerList[i].list)) =>
        /\ last.raised = "none"
        /\ last.value = DispatchedValue
        /\ Entries(last.log, "Receive") = <<>>
        /\ Entries(last.log, "INFO") = <<>>

\* C2's case: Beta is registered, a plugin is loaded, none observes Beta, and a
\* direct Callback("Beta", "x") returned
C2_Witness ==
    /\ last.op = "Callback" /\ last.name = "Beta" /\ last.arg = "x"
    /\ "Beta" \in validNameList
    /\ observerList # <<>>
    /\ Observers(observerList, "Beta") = {}
    /\ last.value = "x"

\* the candidates LoadPlugin reached in its start loop
Reached(log) == Named(log, "Start") \cup Named(log, "ERROR")

\* the candidates whose Start() ran and raised
StartFailed(log) == Named(log, "Start") \cap Named(log, "ERROR")

\* C3: when LoadPlugin returns, plugins holds exactly the candidates whose
\* Start() succeeded, interestIndex has no entry for a plugin whose Start()
\* raised, and Start() was invoked on every candidate that has one, those
\* following a failed plugin included.
C3_StartFailureIsolated ==
    (last.op = "LoadPlugin" /\ last.raised = "none") =>
        /\ Range(pluginList) = Named(last.log, "Start") \ StartFailed(last.log)
        /\ \A k \in StartFailed(last.log) : k \notin ObserverKeys(observerList)
        /\ \A c \in Range(disk) :
              (Module(c).hasAgent /\ Module(c).hasStart) => c \in Named(last.log, "Start")

\* C4: LoadPlugin returns normally whatever contract member a candidate lacks,
\* reports every such candidate, keeps it out of plugins and interestIndex, and
\* reaches every candidate.
C4_ContractFailuresIsolated ==
    (last.op = "LoadPlugin") =>
        /\ last.raised = "none"
        /\ \A c \in Range(disk) :
              /\ c \in Reached(last.log)
              /\ Malformed(c) =>
                    /\ c \in Named(last.log, "ERROR")
                    /\ c \notin Range(pluginList)
                    /\ c \notin ObserverKeys(observerList)

\* the names passed to OpenToPlugin so far
EverOpened == {w[1] : w \in wrappers}

\* C5: Callback(n, v) for a name n never passed to OpenToPlugin raises
\* AssertionError with no Receive invoked and nothing printed, also when a
\* plugin observes n, and leaves plugins, interestIndex and
\* validExtensionPoints as they were.
C5_UnknownNameFailsFast ==
    /\ [](  (last.op = "Callback" /\ last.name \notin EverOpened) =>
                /\ last.raised = "AssertionError"
                /\ last.value = ""
                /\ last.log = <<>>)
    /\ [][ (HostCallback /\ last'.name \notin EverOpened) =>
                UNCHANGED <<pluginList, observerList, validNameList>> ]_vars

\* C5's case: Beta was never registered, a loaded plugin observes it, and
\* Callback("Beta", v) raised
C5_Witness ==
    /\ last.op = "Callback" /\ last.name = "Beta"
    /\ "Beta" \notin EverOpened
    /\ Observers(observerList, "Beta") # {}
    /\ last.raised = "AssertionError"

\* C6: every PluginLoader() call returns the one instance, and however many
\* such calls are made, the module's own LoadPlugin call stays the only
\* execution of discovery (as long as the host does not call LoadPlugin itself).
C6_Singleton ==
    /\ Cardinality(instances) <= 1
    /\ instances # {} => instances = {MANAGER}
    /\ (pc \notin {"construct", "load"} /\ hostLoads = 0) => loads = 1

\* C6's case: a second construction request returned
C6_Witness ==
    /\ pc = "host"
    /\ last.op = "PluginLoader"
    /\ instances = {MANAGER}
    /\ loads = 1

\* C7: a call of a wrapped operation runs the original operation once, first;
\* if that raised nothing else happens; otherwise exactly one Callback(n, r)
\* follows with the value r the original returned, no Receive runs before it,
\* and the call ends as that Callback ends.
C7_WrappedCallDispatchesAfterOriginal ==
    (last.op = "PluginMix") =>
        LET r == Function(last.arg)
            call == <<"function", last.arg, "", "">>
        IN  /\ last.log # <<>> /\ Head(last.log) = call
            /\ Len(Entries(last.log, "function")) = 1
            /\ IF r.raised # "none"
               THEN last.log = <<call>> /\ last.raised = r.raised
               ELSE LET c == Callback(last.name, r.value, pluginList, observerList,
                                      validNameList)
                    IN  /\ Len(last.log) >= 2
                        /\ last.log[2] = <<"Callback", last.name, r.value, "">>
                        /\ Len(Entries(last.log, "Callback")) = 1
                        /\ \A i \in 1..Len(last.log) :
                              last.log[i][1] = "Receive" => i > 2
                        /\ last.raised = c.raised
                        /\ last.value = c.value

\* C7's case: the wrapped Astra returned what the intercepting plugin answered
C7_Witness ==
    /\ last.op = "PluginMix" /\ last.name = "Astra" /\ last.arg = "Astra"
    /\ Len(Entries(last.log, "Receive")) = 1
    /\ last.value = "Nb"

C9_AtMostOneReceive ==
    (last.op \in {"Callback", "PluginMix"}) =>
        /\ Len(Entries(last.log, "Receive")) <= 1
        /\ \A i \in Observers(observerList, last.name) :
              i # Min(Observers(observerList, last.name)) =>
                  observerList[i].name \notin Named(last.log, "Receive")

\* C9's case: two loaded plugins observe Astra and one dispatch of Astra
\* invoked one Receive
C9_Witness ==
    /\ last.op = "Callback" /\ last.name = "Astra"
    /\ Cardinality(Observers(observerList, "Astra")) = 2
    /\ ObserverKeys(observerList) \subseteq Range(pluginList)
    /\ Len(Entries(last.log, "Receive")) = 1

\* C10: every key of interestIndex is a key of plugins, in every reachable
\* state.
C10_RegistryInvariant ==
    ObserverKeys(observerList) \subseteq Range(pluginList)

\* C11: a construction request made after discovery returns the existing
\* manager with plugins, interestIndex and validExtensionPoints as they were.
C11_ConstructionKeepsState ==
    [][ HostConstruct =>
            /\ MANAGER' = MANAGER
            /\ UNCHANGED <<pluginList, observerList, validNameList>> ]_vars

\* C12: after discovery, Callback, a wrapped operation and OpenToPlugin leave
\* plugins and interestIndex unchanged; only OpenToPlugin touches
\* validExtensionPoints, and it only adds the name it is given.
C12_ReadOnlyAfterDiscovery ==
    [][ /\ (ModuleDecorate \/ ModuleCall \/ HostDecorate \/ HostCall \/ HostCallback) =>
               UNCHANGED <<pluginList, observerList>>
        /\ (ModuleCall \/ HostCall \/ HostCallback) => UNCHANGED validNameList
        /\ (ModuleDecorate \/ HostDecorate) =>
               validNameList' = validNameList \cup {last'.name} ]_vars

\* C12's case: with plugins loaded, a host registration of Beta was followed by
\* a dispatch that a plugin intercepted
C12_Witness ==
    /\ pc = "host"
    /\ pluginList # <<>> /\ observerList # <<>>
    /\ "Beta" \in validNameList
    /\ last.op = "PluginMix"
    /\ Entries(last.log, "Receive") # <<>>

\* C13 as claimed: LoadPlugin invokes Start() only on candidates whose
\* identifier is not in plugins when the call begins.
C13_StartsOnlyNewCandidates ==
    [][ (ModuleLoad \/ HostLoad) =>
            \A c \in Named(last'.log, "Start") : c \notin Range(pluginList) ]_vars

\* C13 amended: the start loop walks plugins as it stands after the scan, the
\* identifiers already present first, and invokes Start() on every candidate it
\* reaches that has one; when LoadPlugin returns normally every plugin that was
\* already registered has been started again.
C13_StartsPresentPluginsAgain ==
    [][ (ModuleLoad \/ HostLoad) =>
            LET keys == Scan(pluginList, disk)
                n    == Cardinality(Reached(last'.log))
            IN  /\ Reached(last'.log) = {keys[i] : i \in 1..n}
                /\ \A c \in Reached(last'.log) :
                      (Module(c).hasAgent /\ Module(c).hasStart) =>
                          Calls(last'.log, "Start", c) = 1
                /\ last'.raised = "none" =>
                      \A c \in Range(pluginList) :
                          (Module(c).hasAgent /\ Module(c).hasStart) =>
                              c \in Named(last'.log, "Start") ]_vars

\* C13's case: Second, registered by the module's LoadPlugin, was started again
\* by the host's LoadPlugin (its interestIndex entry is from the first call)
C13_Witness ==
    /\ hostLoads = 1
    /\ last.op = "LoadPlugin"
    /\ startCalls["Second"] = 2
    /\ "Second" \in ObserverKeys(observerList)
    /\ "Second" \notin Range(pluginList)

DiscoveryDone == loads >= 1 /\ pc \in {"decorate", "call", "host", "crashed"}

\* plugins holds a candidate a finished start loop would have removed: the
\* registry is what an unfinished LoadPlugin left behind
PartlyPopulated == \E c \in Range(pluginList) : Malformed(c)

DiscoveryFirst ==
    (wrappers # {} \/ last.op \in {"OpenToPlugin", "Callback", "PluginMix"}) =>
        DiscoveryDone

\* C16: a change a plugin makes to its own observingList after discovery leaves
\* every interestIndex entry, and so the plugin Callback selects for each name,
\* as it was; a dispatch goes by the interestIndex entry, not by the plugin's
\* list as it is now.
C16_InterestListIsolated ==
    /\ [][ PluginEdit =>
              /\ UNCHANGED observerList
              /\ \A n \in Names :
                    Observers(observerList', n) = Observers(observerList, n) ]_vars
    /\ []( (Dispatched /\ Observers(observerList, last.name) # {}) =>
              Named(last.log, "INFO") = {FirstObserver(observerList, last.name)} )

\* C16's case: Sample removed Astra from its own list after discovery, and a
\* dispatch of Astra still selected Sample
C16_Witness ==
    /\ edits > 0
    /\ "Astra" \notin Range(agentList["Sample"])
    /\ last.op = "Callback" /\ last.name = "Astra"
    /\ Named(last.log, "Receive") = {"Sample"}

\* C17: when the Receive of the selected plugin raises, the dispatch ends with
\* that exception (no value, no Receive of another plugin), for Callback and
\* for the wrapped operation alike, and a dispatch changes none of plugins,
\* interestIndex and validExtensionPoints, so the plugin is selected again.
C17_ReceiveErrorPropagates ==
    /\ []( (/\ Dispatched
            /\ Observers(observerList, last.name) # {}
            /\ FirstObserver(observerList, last.name) \in Range(pluginList)
            /\ Receive(FirstObserver(observerList, last.name), last.name,
                       DispatchedValue).raised # "none") =>
              LET p == FirstObserver(observerList, last.name)
              IN  /\ last.raised = Receive(p, last.name, DispatchedValue).raised
                  /\ last.value = ""
                  /\ Entries(last.log, "Receive")
                         = << <<"Receive", p, last.name, DispatchedValue>> >> )
    /\ [][ (ModuleCall \/ HostCall \/ HostCallback) =>
              UNCHANGED <<pluginList, observerList, validNameList>> ]_vars

\* C17's case: Sample, selected for Astra by its interestIndex entry, failed its
\* own assertion and the wrapped operation raised it
C17_Witness ==
    /\ last.op = "PluginMix" /\ last.name = "Astra"
    /\ last.raised = "AssertionError"
    /\ Named(last.log, "Receive") = {"Sample"}
    /\ "Sample" \in Range(pluginList)
    /\ "Sample" \in ObserverKeys(observerList)

\* C18: OpenToPlugin with a name that is already registered raises nothing,
\* leaves validExtensionPoints as it was and yields one more wrapped operation;
\* every wrapped operation of one name whose original operation returns then
\* has the same dispatch: the first
\* plugin whose interestIndex entry holds the name is selected (the name being
\* registered, as Callback requires), and the same plugin's Receive is invoked,
\* whichever wrapped operation is called.
C18_DuplicateRegistration ==
    /\ [][ ((ModuleDecorate \/ HostDecorate) /\ last'.name \in validNameList) =>
              /\ validNameList' = validNameList
              /\ last'.raised = "none"
              /\ wrappers' = wrappers \cup {<<last'.name, last'.arg>>} ]_vars
    /\ []( \A w1, w2 \in wrappers :
              (/\ w1[1] = w2[1]
               /\ Function(w1[2]).raised = "none"
               /\ Function(w2[2]).raised = "none") =>
                 LET r1 == PluginMix(w1[1], w1[2], pluginList, observerList, validNameList)
                     r2 == PluginMix(w2[1], w2[2], pluginList, observerList, validNameList)
                 IN  /\ Named(r1.log, "INFO") = Named(r2.log, "INFO")
                     /\ Named(r1.log, "Receive") = Named(r2.log, "Receive")
                     /\ (w1[1] \in validNameList /\ Observers(observerList, w1[1]) # {}) =>
                           Named(r1.log, "INFO") = {FirstObserver(observerList, w1[1])} )

\* C18's case: Astra was registered twice, and the call of the second wrapped
\* operation was intercepted by the plugin that intercepts the first
C18_Witness ==
    /\ {<<"Astra", "Astra">>, <<"Astra", "Other">>} \subseteq wrappers
    /\ last.op = "PluginMix" /\ last.name = "Astra" /\ last.arg = "Other"
    /\ Observers(observerList, "Astra") # {}
    /\ Named(last.log, "Receive") = {FirstObserver(observerList, "Astra")}
    /\ Named(PluginMix("Astra", "Astra", pluginList, observerList, validNameList).log,
             "Receive") = Named(last.log, "Receive")

====
